---- MODULE Spec2Model ----
(***************************************************************************)
(* Model of prj_overview (src/src/prj_overview/main.py): the filter engine *)
(* (matches_any, should_process, load_ignore_files), the two traversals    *)
(* (generate_tree, get_code_files) and the document assembler              *)
(* (create_markdown, main).                                                *)
(*                                                                         *)
(* A name is a sequence of one-character strings, a path is a sequence of  *)
(* names relative to the project root (create_markdown passes              *)
(* project_root = dir_path), an identifier is the names joined by "/".     *)
(***************************************************************************)
EXTENDS Integers, Sequences, FiniteSets, TLC

VARIABLES
    \* ---- the run of main() ----
    pc,               \* position in main(): "start", "git", "tree", "code", "write", "done", "aborted"
    run,              \* number of the current invocation on the unchanged tree
    exclude_patterns, \* --exclude
    no_llmignore,     \* --no-llmignore
    use_gitignore,    \* --use-gitignore
    tree_only,        \* --tree-only
    ignoreText,       \* content of every ignore file of the tree (its lines)
    initSize,         \* st_size of every __init__.py of the tree
    fault,            \* the file whose read_text fails, and how
    ignore_specs,     \* the list built by main() from load_ignore_files
    tree_lines,       \* result of generate_tree (without the root line)
    code_files,       \* result of get_code_files
    sections,         \* code sections written by create_markdown
    prev,             \* the document of the previous invocation
    \* ---- one call of should_process ----
    d_path, d_excl, d_specs, d_res, d_done,
    \* ---- one call of matches_any ----
    m_id, m_pats, m_res, m_done

runVars == <<pc, run, exclude_patterns, no_llmignore, use_gitignore, tree_only,
             ignoreText, initSize, fault, ignore_specs, tree_lines, code_files,
             sections, prev>>
decideVars == <<d_path, d_excl, d_specs, d_res, d_done>>
matchVars == <<m_id, m_pats, m_res, m_done>>
vars == <<runVars, decideVars, matchVars>>

----------------------------------------------------------------------------
(* Bounds of the input domains. *)

\* longest list of CLI exclude patterns
MaxExclude == 1
\* longest list of ignore specs handed to one call of should_process
MaxSpecs == 2
\* deepest path handed to one call of matches_any
MaxDepth == 3
\* invocations of main() on the same unchanged tree
MaxRuns == 2

----------------------------------------------------------------------------
(* Characters and names. *)

\* code points of the characters the model uses (str comparison in sorted())
Ord(c) ==
    CASE c = "!" -> 33 [] c = "#" -> 35 [] c = "*" -> 42 [] c = "." -> 46
      [] c = "/" -> 47 [] c = "?" -> 63 [] c = "S" -> 83 [] c = "T" -> 84
      [] c = "_" -> 95 [] c = "a" -> 97 [] c = "b" -> 98 [] c = "c" -> 99
      [] c = "d" -> 100 [] c = "e" -> 101 [] c = "g" -> 103 [] c = "h" -> 104
      [] c = "i" -> 105 [] c = "l" -> 108 [] c = "m" -> 109 [] c = "n" -> 110
      [] c = "o" -> 111 [] c = "p" -> 112 [] c = "r" -> 114 [] c = "s" -> 115
      [] c = "t" -> 116 [] c = "u" -> 117 [] c = "x" -> 120 [] c = "y" -> 121

\* str.lower() on one character
LowerChar(c) == CASE c = "S" -> "s" [] c = "T" -> "t" [] OTHER -> c

Lower(s) == [i \in 1..Len(s) |-> LowerChar(s[i])]

\* s < t for two Python strings (lexicographic by code point)
RECURSIVE StrLessFrom(_, _, _)
StrLessFrom(s, t, i) ==
    IF i > Len(t) THEN FALSE
    ELSE IF i > Len(s) THEN TRUE
    ELSE IF s[i] # t[i] THEN Ord(s[i]) < Ord(t[i])
    ELSE StrLessFrom(s, t, i + 1)

StrLess(s, t) == StrLessFrom(s, t, 1)

N_git == <<".", "g", "i", "t">>
N_pycache == <<"_", "_", "p", "y", "c", "a", "c", "h", "e", "_", "_">>
N_init == <<"_", "_", "i", "n", "i", "t", "_", "_", ".", "p", "y">>
N_llmignore == <<".", "l", "l", "m", "i", "g", "n", "o", "r", "e">>
N_gitignore == <<".", "g", "i", "t", "i", "g", "n", "o", "r", "e">>
N_b == <<"b">>
N_h == <<"h">>
N_a_py == <<"a", ".", "p", "y">>
N_c_py == <<"c", ".", "p", "y">>
N_c_pyc == <<"c", ".", "p", "y", "c">>
N_r_md == <<"r", ".", "m", "d">>
N_src == <<"s", "r", "c">>
N_sub == <<"s", "u", "b">>
N_test == <<"t", "e", "s", "t">>
N_Test == <<"T", "e", "s", "t">>
N_dot == <<".">>

\* Path.as_posix(): the names joined by "/"; the empty relative path is "."
RECURSIVE AsPosix(_)
AsPosix(parts) ==
    IF Len(parts) = 0 THEN N_dot
    ELSE IF Len(parts) = 1 THEN parts[1]
    ELSE parts[1] \o <<"/">> \o AsPosix(Tail(parts))

IsPrefix(p, q) == Len(p) <= Len(q) /\ SubSeq(q, 1, Len(p)) = p

----------------------------------------------------------------------------
(* fnmatch.fnmatch(name, pat) on POSIX: os.path.normcase is the identity,  *)
(* `*` is translated to `.*` and `?` to `.` (with re.S), every other       *)
(* character of the patterns used here is literal, and the whole name has  *)
(* to match.  Patterns with `[` are outside the input domain.              *)

RECURSIVE FnMatchFrom(_, _, _, _)
FnMatchFrom(s, p, i, j) ==
    IF j > Len(p) THEN i > Len(s)
    ELSE IF p[j] = "*"
         THEN FnMatchFrom(s, p, i, j + 1)
              \/ (i <= Len(s) /\ FnMatchFrom(s, p, i + 1, j))
    ELSE i <= Len(s) /\ (p[j] = "?" \/ p[j] = s[i])
         /\ FnMatchFrom(s, p, i + 1, j + 1)

\* the mutant of fnmatch in which `*` and `?` stop at "/" (glob with pathname semantics)
RECURSIVE PathnameMatchFrom(_, _, _, _)
PathnameMatchFrom(s, p, i, j) ==
    IF j > Len(p) THEN i > Len(s)
    ELSE IF p[j] = "*"
         THEN PathnameMatchFrom(s, p, i, j + 1)
              \/ (i <= Len(s) /\ s[i] # "/" /\ PathnameMatchFrom(s, p, i + 1, j))
    ELSE i <= Len(s) /\ ((p[j] = "?" /\ s[i] # "/") \/ p[j] = s[i])
         /\ PathnameMatchFrom(s, p, i + 1, j + 1)

FnMatch_pathname(name, pat) == PathnameMatchFrom(name, pat, 1, 1)

FnMatch(name, pat) == FnMatchFrom(name, pat, 1, 1)

\* matches_any: the first matching pattern returns True
RECURSIVE matches_any(_, _)
matches_any(identifier, patterns) ==
    IF patterns = <<>> THEN FALSE
    ELSE IF FnMatch(identifier, Head(patterns)) THEN TRUE
    ELSE matches_any(identifier, Tail(patterns))

----------------------------------------------------------------------------
(* pathspec.PathSpec.from_lines("gitwildmatch", lines) and match_file.     *)
(* A line is compiled to (include, anchored, directory-only, segments):    *)
(* a blank line or a `#` line gives no pattern, a leading `!` negates, a   *)
(* leading `/` or a `/` in the middle anchors the pattern to the scope     *)
(* root, a trailing `/` makes it match only what lies under the named      *)
(* directory.  The regex of a pattern ends with an optional "/" followed   *)
(* by anything, so a pattern that matches a directory matches every path   *)
(* below it.  Lines with a double star, a bracket, a backslash or trailing *)
(* blanks are outside the input domain.                                    *)

RECURSIVE SplitSlash(_)
SplitSlash(s) ==
    IF \A i \in 1..Len(s) : s[i] # "/" THEN <<s>>
    ELSE LET k == CHOOSE i \in 1..Len(s) :
                      s[i] = "/" /\ \A j \in 1..(i - 1) : s[j] # "/"
         IN <<SubSeq(s, 1, k - 1)>> \o SplitSlash(SubSeq(s, k + 1, Len(s)))

IsRuleLine(line) == line # <<>> /\ line[1] # "#"

GitWildMatchPattern(line) ==
    LET neg == line[1] = "!"
        l1 == IF neg THEN Tail(line) ELSE line
        lead == l1[1] = "/"
        l2 == IF lead THEN Tail(l1) ELSE l1
        dirOnly == l2[Len(l2)] = "/"
        l3 == IF dirOnly THEN SubSeq(l2, 1, Len(l2) - 1) ELSE l2
        segs == SplitSlash(l3)
    IN [include |-> ~neg, anchored |-> lead \/ Len(segs) > 1,
        dirOnly |-> dirOnly, segs |-> segs]

\* one segment against one path component: `*` is [^/]*, `?` is [^/]
SegMatch(component, seg) == FnMatch(component, seg)

\* the compiled regex of a pattern against a normalised relative path
PatternMatches(pat, parts) ==
    LET n == Len(parts)
        k == Len(pat.segs)
    IN IF pat.anchored
       THEN /\ n >= k
            /\ \A i \in 1..k : SegMatch(parts[i], pat.segs[i])
            /\ (pat.dirOnly => n > k)
       ELSE \E i \in 1..n : /\ SegMatch(parts[i], pat.segs[1])
                            /\ (pat.dirOnly => i < n)

\* PathSpec.match_file: the last pattern that matches decides
RECURSIVE MatchFileFrom(_, _, _, _)
MatchFileFrom(lines, parts, i, matched) ==
    IF i > Len(lines) THEN matched
    ELSE IF IsRuleLine(lines[i])
              /\ PatternMatches(GitWildMatchPattern(lines[i]), parts)
         THEN MatchFileFrom(lines, parts, i + 1, GitWildMatchPattern(lines[i]).include)
    ELSE MatchFileFrom(lines, parts, i + 1, matched)

match_file(lines, parts) == MatchFileFrom(lines, parts, 1, FALSE)

\* path.relative_to(base_dir).parts, given that base_dir is an ancestor or the path itself;
\* as_posix() of the empty relative path is ".", which pathspec matches as one component
RelativeParts(path, base_dir) ==
    IF Len(path) = Len(base_dir) THEN <<N_dot>>
    ELSE SubSeq(path, Len(base_dir) + 1, Len(path))

----------------------------------------------------------------------------
(* should_process.  An ignore spec is [base_dir, ignore_path, lines]: the  *)
(* compiled PathSpec is determined by the lines it was built from.         *)

\* mutant: every spec is matched against the path relative to the project root
RECURSIVE IgnoredBySpecs_noscope(_, _)
IgnoredBySpecs_noscope(path, specs) ==
    IF specs = <<>> THEN FALSE
    ELSE IF match_file(Head(specs).lines, path) THEN TRUE
    ELSE IgnoredBySpecs_noscope(path, Tail(specs))

\* mutant: the rules of all in-scope specs are read as one list, as git reads
\* nested ignore files (the last matching rule of the last spec decides)
RECURSIVE IgnoredCumulative(_, _, _)
IgnoredCumulative(path, specs, matched) ==
    IF specs = <<>> THEN matched
    ELSE IF IsPrefix(Head(specs).base_dir, path)
         THEN IgnoredCumulative(path, Tail(specs),
                  MatchFileFrom(Head(specs).lines,
                                RelativeParts(path, Head(specs).base_dir), 1, matched))
    ELSE IgnoredCumulative(path, Tail(specs), matched)

IgnoredBySpecs_cumulative(path, specs) == IgnoredCumulative(path, specs, FALSE)

\* the loop over ignore_specs: relative_to raises ValueError outside base_dir (continue)
RECURSIVE IgnoredBySpecs(_, _)
IgnoredBySpecs(path, specs) ==
    IF specs = <<>> THEN FALSE
    ELSE IF IsPrefix(Head(specs).base_dir, path)
              /\ match_file(Head(specs).lines, RelativeParts(path, Head(specs).base_dir))
         THEN TRUE
    ELSE IgnoredBySpecs(path, Tail(specs))

\* mutant: only a top-level .git directory is recognised
InGit_toplevel(path) == Len(path) > 0 /\ path[1] = N_git

InGit(path) == \E i \in 1..Len(path) : path[i] = N_git

\* mutant: the CLI patterns are matched against the name instead of the identifier
should_process_basename(path, excl, specs) ==
    IF InGit(path) THEN FALSE
    ELSE IF matches_any(path[Len(path)], excl) THEN FALSE
    ELSE ~IgnoredBySpecs(path, specs)

should_process(path, excl, specs) ==
    IF InGit(path) THEN FALSE
    ELSE IF matches_any(AsPosix(path), excl) THEN FALSE
    ELSE ~IgnoredBySpecs(path, specs)

----------------------------------------------------------------------------
(* The scanned directory.  Its shape is fixed; the content of the ignore   *)
(* files, the size of the __init__.py files, the file that cannot be read  *)
(* and the order in which the filesystem enumerates a directory vary.      *)

Root == <<>>

Dirs == {<<N_git>>, <<N_b>>, <<N_b, N_git>>, <<N_b, N_pycache>>}

Files == {<<N_git, N_h>>, <<N_b, N_git, N_h>>, <<N_b, N_pycache, N_c_pyc>>,
          <<N_b, N_init>>, <<N_b, N_c_py>>, <<N_b, N_llmignore>>,
          <<N_init>>, <<N_a_py>>, <<N_r_md>>, <<N_llmignore>>, <<N_gitignore>>}

Name(path) == path[Len(path)]

Parent(path) == SubSeq(path, 1, Len(path) - 1)

Children(dir) == {p \in Dirs \cup Files : Len(p) = Len(dir) + 1 /\ IsPrefix(dir, p)}

\* the orders in which os.scandir may return the entries of a directory
ScanOrders == {"asc", "desc"}

RECURSIVE AscendingByName(_)
AscendingByName(S) ==
    IF S = {} THEN <<>>
    ELSE LET m == CHOOSE x \in S : \A y \in S \ {x} : StrLess(Name(x), Name(y))
         IN <<m>> \o AscendingByName(S \ {m})

Reverse(seq) == [i \in 1..Len(seq) |-> seq[Len(seq) + 1 - i]]

\* current_path.iterdir()
IterDir(dir, ord) ==
    IF ord = "asc" THEN AscendingByName(Children(dir))
    ELSE Reverse(AscendingByName(Children(dir)))

\* dir_path.rglob("*"): every entry below dir, a directory before its content
RECURSIVE Rglob(_, _)
RECURSIVE RglobEntries(_, _, _)
RglobEntries(entries, i, ord) ==
    IF i > Len(entries) THEN <<>>
    ELSE <<entries[i]>>
         \o (IF entries[i] \in Dirs THEN Rglob(entries[i], ord) ELSE <<>>)
         \o RglobEntries(entries, i + 1, ord)

Rglob(dir, ord) == RglobEntries(IterDir(dir, ord), 1, ord)

\* entry.stat().st_size: only the size of an __init__.py is ever read
StSize(path, sizes) == IF Name(path) = N_init THEN sizes[path] ELSE 1

----------------------------------------------------------------------------
(* load_ignore_files: a file that cannot be read is logged and skipped.    *)

RECURSIVE LoadFrom(_, _, _, _, _)
LoadFrom(found, i, file_name, texts, flt) ==
    IF i > Len(found) THEN <<>>
    ELSE IF Name(found[i]) # file_name
         THEN LoadFrom(found, i + 1, file_name, texts, flt)
    ELSE IF flt.kind # "none" /\ flt.file = found[i]
         THEN LoadFrom(found, i + 1, file_name, texts, flt)
    ELSE <<[base_dir |-> Parent(found[i]), ignore_path |-> found[i],
            lines |-> texts[found[i]]]>>
         \o LoadFrom(found, i + 1, file_name, texts, flt)

load_ignore_files(file_name, ord, texts, flt) ==
    LoadFrom(Rglob(Root, ord), 1, file_name, texts, flt)

----------------------------------------------------------------------------
(* generate_tree._tree.  A line is the text prefix + connector + " " +     *)
(* name (+ "/" for a directory); "+--" stands for the corner connector,    *)
(* "|--" for the tee connector, "|   " for the bar indentation.  The field *)
(* entry records the path the line was written for.                        *)

\* the sort key (not x.is_dir(), x.name.lower())
KeyLess(x, y) ==
    \/ (x \in Dirs /\ y \notin Dirs)
    \/ ((x \in Dirs) = (y \in Dirs) /\ StrLess(Lower(Name(x)), Lower(Name(y))))

\* sorted() is stable: an entry goes before the first entry with a greater key
InsertByKey(x, sorted) ==
    LET later == {i \in 1..Len(sorted) : KeyLess(x, sorted[i])}
        k == IF later = {} THEN Len(sorted) + 1
             ELSE CHOOSE i \in later : \A j \in later : i <= j
    IN SubSeq(sorted, 1, k - 1) \o <<x>> \o SubSeq(sorted, k, Len(sorted))

RECURSIVE SortedFrom(_, _, _)
SortedFrom(seq, i, acc) ==
    IF i > Len(seq) THEN acc ELSE SortedFrom(seq, i + 1, InsertByKey(seq[i], acc))

TreeEntries(dir, ord) ==
    SortedFrom(SelectSeq(IterDir(dir, ord),
                         LAMBDA p : Name(p) \notin {N_pycache, N_git}), 1, <<>>)

Connector(index, entries_count) == IF index = entries_count THEN "+--" ELSE "|--"

Extension(index, entries_count) == IF index = entries_count THEN "    " ELSE "|   "

RECURSIVE Tree(_, _, _, _, _, _)
RECURSIVE TreeLoop(_, _, _, _, _, _, _)
TreeLoop(entries, index, prefix, ord, excl, specs, sizes) ==
    IF index > Len(entries) THEN <<>>
    ELSE LET entry == entries[index]
             rest == TreeLoop(entries, index + 1, prefix, ord, excl, specs, sizes)
         IN IF ~should_process(entry, excl, specs) THEN rest
            ELSE IF entry \in Dirs
                 THEN <<[prefix |-> prefix, connector |-> Connector(index, Len(entries)),
                         name |-> Name(entry), slash |-> TRUE, entry |-> entry]>>
                      \o Tree(entry, prefix \o <<Extension(index, Len(entries))>>,
                              ord, excl, specs, sizes)
                      \o rest
            ELSE IF Name(entry) = N_init /\ StSize(entry, sizes) = 0 THEN rest
            ELSE <<[prefix |-> prefix, connector |-> Connector(index, Len(entries)),
                    name |-> Name(entry), slash |-> FALSE, entry |-> entry]>>
                 \o rest

Tree(current_path, prefix, ord, excl, specs, sizes) ==
    TreeLoop(TreeEntries(current_path, ord), 1, prefix, ord, excl, specs, sizes)

generate_tree(ord, excl, specs, sizes) == Tree(Root, <<>>, ord, excl, specs, sizes)

----------------------------------------------------------------------------
(* get_code_files *)

\* mutant: the collector lacks the check of the empty __init__.py
RECURSIVE CollectFrom_keepinit(_, _, _, _, _)
CollectFrom_keepinit(found, i, excl, specs, sizes) ==
    IF i > Len(found) THEN <<>>
    ELSE LET path == found[i]
             rest == CollectFrom_keepinit(found, i + 1, excl, specs, sizes)
         IN IF InGit(path) THEN rest
            ELSE IF ~should_process(path, excl, specs) THEN rest
            ELSE IF path \in Files THEN <<path>> \o rest
            ELSE rest

RECURSIVE CollectFrom(_, _, _, _, _)
CollectFrom(found, i, excl, specs, sizes) ==
    IF i > Len(found) THEN <<>>
    ELSE LET path == found[i]
             rest == CollectFrom(found, i + 1, excl, specs, sizes)
         IN IF InGit(path) THEN rest
            ELSE IF ~should_process(path, excl, specs) THEN rest
            ELSE IF path \in Files
                 THEN IF Name(path) = N_init /\ StSize(path, sizes) = 0 THEN rest
                      ELSE <<path>> \o rest
            ELSE rest

get_code_files(ord, excl, specs, sizes) ==
    CollectFrom(Rglob(Root, ord), 1, excl, specs, sizes)

----------------------------------------------------------------------------
(* create_markdown: the code sections. *)

\* Path.suffix: from the last "." of the name, unless it is the first or the last character
LastDot(name) ==
    IF \A i \in 1..Len(name) : name[i] # "." THEN 0
    ELSE CHOOSE i \in 1..Len(name) :
             name[i] = "." /\ \A j \in (i + 1)..Len(name) : name[j] # "."

Suffix(name) ==
    IF 1 < LastDot(name) /\ LastDot(name) < Len(name)
    THEN SubSeq(name, LastDot(name), Len(name)) ELSE <<>>

Stem(name) == SubSeq(name, 1, Len(name) - Len(Suffix(name)))

FenceTag(name) == IF Suffix(name) # <<>> THEN Tail(Suffix(name)) ELSE Stem(name)

Backticks(name) == IF FenceTag(name) = <<"m", "d">> THEN 4 ELSE 3

Placeholder == "# [Binary file not displayed]"

\* the loop over code_files: only UnicodeDecodeError is caught, any other
\* exception of read_text leaves the loop and the program
RECURSIVE WriteFrom(_, _, _, _)
WriteFrom(files, i, flt, acc) ==
    IF i > Len(files) THEN [sections |-> acc, aborted |-> FALSE]
    ELSE IF flt.kind = "oserror" /\ flt.file = files[i]
         THEN [sections |-> acc, aborted |-> TRUE]
    ELSE WriteFrom(files, i + 1, flt,
             Append(acc, [rel_path |-> AsPosix(files[i]),
                          tag |-> FenceTag(Name(files[i])),
                          backticks |-> Backticks(Name(files[i])),
                          content |-> IF flt.kind = "decode" /\ flt.file = files[i]
                                      THEN <<Placeholder>>
                                      ELSE <<"text of", files[i]>>]))

----------------------------------------------------------------------------
(* Input domains of a run of main(). *)

\* the sequences over S of length at most n
RECURSIVE SeqsUpTo(_, _)
SeqsUpTo(S, n) ==
    IF n = 0 THEN {<<>>}
    ELSE SeqsUpTo(S, n - 1)
         \cup {Append(q, x) : q \in {r \in SeqsUpTo(S, n - 1) : Len(r) = n - 1}, x \in S}

P_star_md == <<"*", ".", "m", "d">>
P_star_py == <<"*", ".", "p", "y">>
P_b == <<"b">>
L_not_c_py == <<"!", "c", ".", "p", "y">>
L_not_h == <<"!", "h">>
L_comment == <<"#", " ", "c">>
L_star == <<"*">>

\* --exclude patterns
CliPool == {P_star_md, P_b}

\* contents of the .llmignore of the root, of b/.llmignore and of the .gitignore
RootTexts == {<<>>, <<P_star_py, L_not_c_py, L_not_h>>}
SubTexts == {<<L_comment, N_c_py>>, <<L_star>>}
GitTexts == {<<P_star_md>>}

IgnoreFiles == {p \in Files : Name(p) \in {N_llmignore, N_gitignore}}
InitFiles == {p \in Files : Name(p) = N_init}

NoFault == [kind |-> "none", file |-> Root]
Faults == {NoFault,
           [kind |-> "decode", file |-> <<N_a_py>>],
           [kind |-> "oserror", file |-> <<N_a_py>>],
           [kind |-> "oserror", file |-> <<N_b, N_llmignore>>]}

\* the document written so far: the tree block and the code sections
Document == [tree |-> tree_lines, code |-> sections, completed |-> pc = "done"]

IdleDecide ==
    /\ d_path = <<>> /\ d_excl = <<>> /\ d_specs = <<>>
    /\ d_res = FALSE /\ d_done = FALSE

IdleMatch == m_id = <<>> /\ m_pats = <<>> /\ m_res = FALSE /\ m_done = FALSE

IdleRun ==
    /\ pc = "idle" /\ run = 0
    /\ exclude_patterns = <<>>
    /\ no_llmignore = FALSE /\ use_gitignore = FALSE /\ tree_only = FALSE
    /\ ignoreText = <<>> /\ initSize = <<>> /\ fault = NoFault
    /\ ignore_specs = <<>> /\ tree_lines = <<>> /\ code_files = <<>>
    /\ sections = <<>> /\ prev = <<>>

Init ==
    /\ pc = "start" /\ run = 1
    /\ exclude_patterns \in SeqsUpTo(CliPool, MaxExclude)
    /\ no_llmignore \in BOOLEAN
    /\ use_gitignore \in BOOLEAN
    /\ tree_only \in BOOLEAN
    /\ \E rt \in RootTexts, st \in SubTexts, gt \in GitTexts :
           ignoreText = [f \in IgnoreFiles |->
                            IF f = <<N_llmignore>> THEN rt
                            ELSE IF f = <<N_b, N_llmignore>> THEN st ELSE gt]
    /\ initSize \in [InitFiles -> {0, 1}]
    /\ fault \in Faults
    /\ ignore_specs = <<>> /\ tree_lines = <<>> /\ code_files = <<>>
    /\ sections = <<>> /\ prev = <<>>
    /\ IdleDecide /\ IdleMatch

----------------------------------------------------------------------------
(* main() and create_markdown, one action per step. *)

\* main: the .llmignore files are loaded unless --no-llmignore
LoadLlmignore ==
    /\ pc = "start"
    /\ \E ord \in ScanOrders :
           ignore_specs' = IF no_llmignore THEN ignore_specs
                           ELSE ignore_specs
                                \o load_ignore_files(N_llmignore, ord, ignoreText, fault)
    /\ pc' = "git"
    /\ UNCHANGED <<run, exclude_patterns, no_llmignore, use_gitignore, tree_only,
                   ignoreText, initSize, fault, tree_lines, code_files, sections, prev>>
    /\ UNCHANGED <<decideVars, matchVars>>

\* main: the .gitignore files are loaded with --use-gitignore, after the .llmignore files
LoadGitignore ==
    /\ pc = "git"
    /\ \E ord \in ScanOrders :
           ignore_specs' = IF use_gitignore
                           THEN ignore_specs
                                \o load_ignore_files(N_gitignore, ord, ignoreText, fault)
                           ELSE ignore_specs
    /\ pc' = "tree"
    /\ UNCHANGED <<run, exclude_patterns, no_llmignore, use_gitignore, tree_only,
                   ignoreText, initSize, fault, tree_lines, code_files, sections, prev>>
    /\ UNCHANGED <<decideVars, matchVars>>

\* create_markdown: the tree block; --tree-only ends the document here
GenerateTree ==
    /\ pc = "tree"
    /\ \E ord \in ScanOrders :
           tree_lines' = generate_tree(ord, exclude_patterns, ignore_specs, initSize)
    /\ pc' = IF tree_only THEN "done" ELSE "code"
    /\ UNCHANGED <<run, exclude_patterns, no_llmignore, use_gitignore, tree_only,
                   ignoreText, initSize, fault, ignore_specs, code_files, sections, prev>>
    /\ UNCHANGED <<decideVars, matchVars>>

\* create_markdown: the files of the code part
GetCodeFiles ==
    /\ pc = "code"
    /\ \E ord \in ScanOrders :
           code_files' = get_code_files(ord, exclude_patterns, ignore_specs, initSize)
    /\ pc' = "write"
    /\ UNCHANGED <<run, exclude_patterns, no_llmignore, use_gitignore, tree_only,
                   ignoreText, initSize, fault, ignore_specs, tree_lines, sections, prev>>
    /\ UNCHANGED <<decideVars, matchVars>>

\* create_markdown: one section per collected file; an uncaught exception ends the program
WriteSections ==
    /\ pc = "write"
    /\ sections' = WriteFrom(code_files, 1, fault, <<>>).sections
    /\ pc' = IF WriteFrom(code_files, 1, fault, <<>>).aborted THEN "aborted" ELSE "done"
    /\ UNCHANGED <<run, exclude_patterns, no_llmignore, use_gitignore, tree_only,
                   ignoreText, initSize, fault, ignore_specs, tree_lines, code_files, prev>>
    /\ UNCHANGED <<decideVars, matchVars>>

\* the program is started again on the unchanged tree with the same arguments
Rerun ==
    /\ pc = "done"
    /\ run < MaxRuns
    /\ prev' = <<Document>>
    /\ run' = run + 1
    /\ pc' = "start"
    /\ ignore_specs' = <<>> /\ tree_lines' = <<>> /\ code_files' = <<>>
    /\ sections' = <<>>
    /\ UNCHANGED <<exclude_patterns, no_llmignore, use_gitignore, tree_only,
                   ignoreText, initSize, fault>>
    /\ UNCHANGED <<decideVars, matchVars>>

Next ==
    \/ LoadLlmignore
    \/ LoadGitignore
    \/ GenerateTree
    \/ GetCodeFiles
    \/ WriteSections
    \/ Rerun

Spec == Init /\ [][Next]_vars

----------------------------------------------------------------------------
(* One call of should_process on inputs drawn from bounded sets. *)

N_a == <<"a">>
N_x == <<"x">>
P_x == <<"x">>
P_a_star == <<"a", "/", "*">>
L_not_x == <<"!", "x">>

DecideNames == {N_a, N_b, N_x}

DecidePaths ==
    (SeqsUpTo(DecideNames, MaxDepth) \ {<<>>})
    \cup {<<N_git>>, <<N_git, N_x>>, <<N_a, N_git, N_x>>, <<N_a, N_b, N_git>>}

DecideCli == {P_x, P_a_star}

\* ignore files at the root, in a/ and in a/b/, holding `x` or `*` followed by `!x`
DecideSpecs ==
    {[base_dir |-> b, ignore_path |-> Append(b, N_llmignore), lines |-> t] :
        b \in {<<>>, <<N_a>>, <<N_a, N_b>>}, t \in {<<P_x>>, <<L_star, L_not_x>>}}

InitDecide ==
    /\ IdleRun /\ IdleMatch
    /\ d_path \in DecidePaths
    /\ d_excl \in SeqsUpTo(DecideCli, MaxExclude)
    /\ d_specs \in SeqsUpTo(DecideSpecs, MaxSpecs)
    /\ d_res = FALSE
    /\ d_done = FALSE

Decide ==
    /\ ~d_done
    /\ d_res' = should_process(d_path, d_excl, d_specs)
    /\ d_done' = TRUE
    /\ UNCHANGED <<d_path, d_excl, d_specs>>
    /\ UNCHANGED <<runVars, matchVars>>

NextDecide == Decide

SpecDecide == InitDecide /\ [][NextDecide]_vars

----------------------------------------------------------------------------
(* One call of matches_any on inputs drawn from bounded sets. *)

\* longest pattern list handed to one call of matches_any
MaxPatterns == 2

P_src_star_py == <<"s", "r", "c", "/", "*", ".", "p", "y">>
P_star_test_star == <<"*", "t", "e", "s", "t", "*">>

MatchNames == {N_src, N_sub, N_test, N_Test, N_a_py}

MatchIdentifiers == {AsPosix(q) : q \in SeqsUpTo(MatchNames, MaxDepth) \ {<<>>}}

MatchPatterns == {P_src_star_py, P_star_test_star, P_star_py}

InitMatch ==
    /\ IdleRun /\ IdleDecide
    /\ m_id \in MatchIdentifiers
    /\ m_pats \in SeqsUpTo(MatchPatterns, MaxPatterns)
    /\ m_res = FALSE
    /\ m_done = FALSE

Match ==
    /\ ~m_done
    /\ m_res' = matches_any(m_id, m_pats)
    /\ m_done' = TRUE
    /\ UNCHANGED <<m_id, m_pats>>
    /\ UNCHANGED <<runVars, decideVars>>

NextMatch == Match

SpecMatch == InitMatch /\ [][NextMatch]_vars

----------------------------------------------------------------------------
(* Vocabulary of the properties. *)

Range(seq) == {seq[i] : i \in 1..Len(seq)}

\* the path has a component equal to .git
HasGitComponent(path) == N_git \in Range(path)

\* generate_tree has returned in this invocation
TreeDone == pc \in {"code", "write", "done", "aborted"}

\* get_code_files has returned in this invocation
CodeDone == pc \in {"write", "aborted"} \/ (pc = "done" /\ ~tree_only)

\* the entries that have a line in the rendered tree
TreeShown == {tree_lines[i].entry : i \in 1..Len(tree_lines)}

Decision(path) == should_process(path, exclude_patterns, ignore_specs)

\* every directory above the entry is listed and passes the filter
AncestorsShown(path) ==
    \A k \in 1..(Len(path) - 1) :
        /\ Decision(SubSeq(path, 1, k))
        /\ path[k] \notin {N_pycache, N_git}

StartsWith(s, t) == IsPrefix(t, s)

EndsWith(s, t) == Len(t) <= Len(s) /\ SubSeq(s, Len(s) - Len(t) + 1, Len(s)) = t

Contains(s, t) == \E k \in 1..(Len(s) - Len(t) + 1) : SubSeq(s, k, k + Len(t) - 1) = t

S_src_slash == <<"s", "r", "c", "/">>
S_dot_py == <<".", "p", "y">>

PermutationsOf(seq) ==
    {[i \in 1..Len(seq) |-> seq[f[i]]] :
        f \in {g \in [1..Len(seq) -> 1..Len(seq)] :
                  \A i, j \in 1..Len(seq) : g[i] = g[j] => i = j}}

\* the spec, taken alone, reports the path ignored
SpecIgnores(sp, path) ==
    IsPrefix(sp.base_dir, path) /\ match_file(sp.lines, RelativeParts(path, sp.base_dir))

CliMatches(path, excl) == \E i \in 1..Len(excl) : FnMatch(AsPosix(path), excl[i])

RemoveAt(seq, i) == SubSeq(seq, 1, i - 1) \o SubSeq(seq, i + 1, Len(seq))

----------------------------------------------------------------------------
(* C1: when both traversals have run, a file has a line in the rendered    *)
(* tree if and only if it is in the collected file list.                   *)
C1_TraversalsAgree ==
    (pc = "done" /\ ~tree_only) =>
        \A f \in Files : (f \in TreeShown) <=> (f \in Range(code_files))

(* C2: a path with a component .git at any depth is excluded by            *)
(* should_process whatever the CLI patterns and the loaded ignore specs    *)
(* are, a spec that negates the path included, and it appears neither in   *)
(* the rendered tree nor in the collected file list.                       *)
C2_GitExcluded ==
    \A p \in Dirs \cup Files :
        HasGitComponent(p) =>
            /\ ~Decision(p)
            /\ (TreeDone => p \notin TreeShown)
            /\ (CodeDone => p \notin Range(code_files))

C2_Witness ==
    /\ pc = "done" /\ ~tree_only
    /\ \E i \in 1..Len(ignore_specs) : L_not_h \in Range(ignore_specs[i].lines)
    /\ <<N_r_md>> \in Range(code_files)
    /\ <<N_r_md>> \in TreeShown

(* C3: when the identifier of the path matches a CLI exclude pattern,      *)
(* should_process returns excluded for every list of ignore specs, the     *)
(* empty list and lists with a rule that un-ignores the path included.     *)
C3_CliPrecedence ==
    (d_done /\ CliMatches(d_path, d_excl)) => d_res = FALSE

C3_Witness ==
    /\ d_done
    /\ d_path = <<N_a, N_x>>
    /\ d_excl = <<P_a_star>>
    /\ d_specs = <<[base_dir |-> <<N_a>>, ignore_path |-> <<N_a, N_llmignore>>,
                    lines |-> <<L_star, L_not_x>>]>>
    /\ d_res = FALSE

(* C4: a spec whose scope root does not contain the path cannot change     *)
(* the decision, and the path is matched relative to the scope root: the   *)
(* ignore file a/b/.llmignore with the pattern x excludes a/b/x and does   *)
(* not exclude a/x.                                                        *)
C4_Scoping ==
    d_done =>
        /\ \A i \in 1..Len(d_specs) :
               ~IsPrefix(d_specs[i].base_dir, d_path) =>
                   should_process(d_path, d_excl, RemoveAt(d_specs, i)) = d_res
        /\ (/\ d_excl = <<>>
            /\ Len(d_specs) = 1
            /\ d_specs[1].base_dir = <<N_a, N_b>>
            /\ d_specs[1].lines = <<P_x>>) =>
               /\ (d_path = <<N_a, N_b, N_x>> => d_res = FALSE)
               /\ (d_path = <<N_a, N_x>> => d_res = TRUE)
               /\ (d_path = <<N_x>> => d_res = TRUE)

C4_Witness ==
    /\ d_done
    /\ d_path = <<N_a, N_x>>
    /\ d_excl = <<>>
    /\ Len(d_specs) = 1
    /\ d_specs[1].base_dir = <<N_a, N_b>>
    /\ d_specs[1].lines = <<P_x>>
    /\ d_res = TRUE

(* C5: a second invocation on the unchanged tree with the same arguments   *)
(* writes the same document as the first, in the same order, whatever      *)
(* order the filesystem enumerates the directories in.                     *)
C5_Deterministic ==
    (pc = "done" /\ prev # <<>>) => Document = prev[1]

(* C6 as stated: `src/*.py` matches only the files directly under src/,    *)
(* `*test*` matches an identifier that contains test anywhere, matching    *)
(* is case-sensitive.                                                      *)
ClaimedMatch(identifier, pattern) ==
    IF pattern = P_src_star_py
    THEN /\ StartsWith(identifier, S_src_slash)
         /\ EndsWith(identifier, S_dot_py)
         /\ Len(identifier) >= Len(S_src_slash) + Len(S_dot_py)
         /\ \A k \in (Len(S_src_slash) + 1)..Len(identifier) : identifier[k] # "/"
    ELSE IF pattern = P_star_test_star THEN Contains(identifier, N_test)
    ELSE EndsWith(identifier, S_dot_py)

C6_Original ==
    m_done => (m_res <=> \E i \in 1..Len(m_pats) : ClaimedMatch(m_id, m_pats[i]))

(* C6 amended: matches_any returns true iff the whole identifier matches   *)
(* one of the patterns, where a star matches any run of characters, "/"    *)
(* included: `src/*.py` matches every identifier that starts with src/ and *)
(* ends with .py (src/a.py and src/sub/a.py), `*test*` matches an          *)
(* identifier that contains test anywhere, `*.py` one that ends with .py;  *)
(* matching is case-sensitive.                                             *)
StarMatch(identifier, pattern) ==
    IF pattern = P_src_star_py
    THEN /\ StartsWith(identifier, S_src_slash)
         /\ EndsWith(identifier, S_dot_py)
         /\ Len(identifier) >= Len(S_src_slash) + Len(S_dot_py)
    ELSE IF pattern = P_star_test_star THEN Contains(identifier, N_test)
    ELSE EndsWith(identifier, S_dot_py)

C6_StarCrossesSlash ==
    m_done => (m_res <=> \E i \in 1..Len(m_pats) : StarMatch(m_id, m_pats[i]))

C6_Witness ==
    /\ m_done
    /\ m_id = AsPosix(<<N_src, N_sub, N_a_py>>)
    /\ m_pats = <<P_src_star_py>>
    /\ m_res = TRUE

C8_PerFileErrorsContained ==
    /\ pc # "aborted"
    /\ (pc = "done" /\ ~tree_only) =>
           /\ Len(sections) = Len(code_files)
           /\ \A i \in 1..Len(sections) :
                  (fault.kind # "none" /\ fault.file = code_files[i]) =>
                      sections[i].content = <<Placeholder>>
    /\ (pc \in {"git", "tree", "code", "write", "done"} /\ ~no_llmignore) =>
           \A f \in IgnoreFiles :
               Name(f) = N_llmignore =>
                   ((\E i \in 1..Len(ignore_specs) : ignore_specs[i].ignore_path = f)
                        <=> ~(fault.kind # "none" /\ fault.file = f))

(* C9: a path that passes the .git and CLI checks is excluded iff at       *)
(* least one spec whose scope root contains it reports it ignored; the     *)
(* result is the same for every permutation of the ignore source list; a   *)
(* negation rule does not re-include a path that another spec ignores.     *)
C9_AnySpecExcludes ==
    d_done =>
        /\ (~HasGitComponent(d_path) /\ ~CliMatches(d_path, d_excl)) =>
               (d_res = FALSE <=> \E i \in 1..Len(d_specs) : SpecIgnores(d_specs[i], d_path))
        /\ \A q \in PermutationsOf(d_specs) : should_process(d_path, d_excl, q) = d_res

C9_Witness ==
    /\ d_done
    /\ d_path = <<N_a, N_x>>
    /\ d_excl = <<>>
    /\ Len(d_specs) = 2
    /\ d_specs[1].base_dir = <<>> /\ d_specs[1].lines = <<P_x>>
    /\ d_specs[2].base_dir = <<N_a>> /\ d_specs[2].lines = <<L_star, L_not_x>>
    /\ d_res = FALSE

(* C10: at every level of the rendered tree the last rendered sibling has  *)
(* the corner connector and every other sibling the tee connector; the     *)
(* lines below a directory rendered as last sibling are indented with four *)
(* spaces, the lines below any other directory with the bar.               *)
LastRendered(i) ==
    ~\E j \in (i + 1)..Len(tree_lines) :
        Parent(tree_lines[j].entry) = Parent(tree_lines[i].entry)

C10_Connectors ==
    TreeDone =>
        \A i \in 1..Len(tree_lines) :
            /\ tree_lines[i].connector = (IF LastRendered(i) THEN "+--" ELSE "|--")
            /\ \A j \in 1..Len(tree_lines) :
                   Parent(tree_lines[j].entry) = tree_lines[i].entry =>
                       tree_lines[j].prefix =
                           Append(tree_lines[i].prefix,
                                  IF LastRendered(i) THEN "    " ELSE "|   ")

====
